---- MODULE Spec2Model ----
(***************************************************************************)
(* Model of the RKB NativeMinter precompile (crates/rkb/src/native_minter.rs) *)
(* and of the EVM factory that registers a precompile at 0x420              *)
(* (crates/rkb/src/evm.rs).                                                 *)
(*                                                                          *)
(* Spec         the precompile operation NativeMinterPrecompile::call on a  *)
(*              ledger of account balances.                                 *)
(* SpecRoundTrip the same operation on mint and burn calls, with the call  *)
(*              before the last kept as history.                            *)
(* SpecFactory  RkbEvmFactory: new/default, create_evm,                     *)
(*              create_evm_with_inspector, and calls routed by a created    *)
(*              EVM through its precompile set.                             *)
(***************************************************************************)
EXTENDS Integers, Sequences, FiniteSets, TLC

\* ------------------------------------------------------------------ bounds

\* U256 is modelled as 0..U256Max: the largest balance / amount value.
U256Max == 2

\* At most this many EVMs are created by the factory in one behaviour.
MaxEvms == 2

\* Invocations whose mints and burns the accounting history adds up.
MaxAudited == 3

\* --------------------------------------------------------------- constants

NATIVE_MINTER_ADDRESS == "0x420"

NATIVE_MINTER_GAS_COST == 6000

\* Address::ZERO and the bridge address of the crate's examples and tests.
ADDRESS_ZERO == "0x0"

BRIDGE_EXAMPLE == "0x1234567890abcdef1234567890abcdef12345678"

\* The account addresses of the model (callers, recipients, bridges).
Address == {ADDRESS_ZERO, BRIDGE_EXAMPLE}

U256 == 0..U256Max

\* sol! { function mint(address,uint256); function burn(address,uint256); }
\* SELECTOR is the first four bytes of keccak256 of the signature.
mintCall_SELECTOR == <<64, 193, 15, 25>>      \* 0x40c10f19

burnCall_SELECTOR == <<157, 194, 159, 172>>   \* 0x9dc29fac

\* ------------------------------------------------------------ result type

\* Ok(PrecompileOutput::new(gas_used, Bytes::new()))
PrecompileOutput_new(gas_used) ==
    [ok |-> TRUE, err |-> "", gas_used |-> gas_used, bytes |-> <<>>]

\* Err(PrecompileError::OutOfGas) / Err(PrecompileError::other*(msg))
PrecompileError(msg) ==
    [ok |-> FALSE, err |-> msg, gas_used |-> 0, bytes |-> <<>>]

\* ------------------------------------------------------- calldata (input.data)

(* input.data is a byte string.  It is modelled by its first min(4, len)    *)
(* bytes (sel) and, when at least 4 bytes long, by the 32-byte words that   *)
(* follow: nwords complete words, of which word 0 is read as an address     *)
(* slot (12 bytes of padding `pad`, nonzero when dirty, and 20 bytes `addr`)*)
(* and word 1 as a big-endian uint256 (`amount`).                           *)
data_len(data) == Len(data.sel) + 32 * data.nwords

\* mintCall::abi_decode / burnCall::abi_decode of data[4..]: two 32-byte
\* words are needed; the address is the low 20 bytes of word 0.
abi_decode(data) ==
    IF data.nwords < 2
    THEN [ok |-> FALSE, address |-> ADDRESS_ZERO, amount |-> 0]
    ELSE [ok |-> TRUE, address |-> data.addr, amount |-> data.amount]

\* ------------------------------------------------------------ EvmInternals

\* U256::saturating_add, the arithmetic of the journal's balance increase.
saturating_add(a, b) == IF a + b > U256Max THEN U256Max ELSE a + b

\* internals.load_account(address): the account load fails when the
\* database reports an error, otherwise yields the account's balance.
load_account(internals, address) ==
    IF internals.db_error
    THEN [ok |-> FALSE, balance |-> 0]
    ELSE [ok |-> TRUE, balance |-> internals.balance[address]]

\* internals.balance_incr(address, amount): loads the account, then adds.
balance_incr(internals, address, amount) ==
    IF internals.db_error
    THEN [ok |-> FALSE, balance |-> internals.balance]
    ELSE [ok |-> TRUE,
          balance |-> [internals.balance EXCEPT
                          ![address] = saturating_add(@, amount)]]

\* internals.set_balance(address, new_balance)
set_balance(internals, address, new_balance) ==
    IF internals.db_error
    THEN [ok |-> FALSE, balance |-> internals.balance]
    ELSE [ok |-> TRUE,
          balance |-> [internals.balance EXCEPT ![address] = new_balance]]

\* ------------------------------------------------- NativeMinterPrecompile

\* What one invocation yields: the PrecompileResult, the ledger afterwards,
\* the EvmInternals primitives it invoked (in order) and the match arm taken.
Outcome(result, balance, ledger_calls, branch) ==
    [result |-> result, balance |-> balance,
     ledger_calls |-> ledger_calls, branch |-> branch]

is_direct_call(input) == input.target_address = input.bytecode_address

is_static_call(input) == input.is_static

\* Mutant: the mint writes the amount as the new balance instead of adding.
execute_mint_Overwrites(internals, recipient, amount) ==
    LET r == set_balance(internals, recipient, amount) IN
    IF ~r.ok
    THEN Outcome(PrecompileError("NativeMinter: mint failed"),
                 internals.balance, <<"balance_incr">>, "mint")
    ELSE Outcome(PrecompileOutput_new(NATIVE_MINTER_GAS_COST),
                 r.balance, <<"balance_incr">>, "mint")

execute_mint(internals, recipient, amount) ==
    LET r == balance_incr(internals, recipient, amount) IN
    IF ~r.ok
    THEN Outcome(PrecompileError("NativeMinter: mint failed"),
                 internals.balance, <<"balance_incr">>, "mint")
    ELSE Outcome(PrecompileOutput_new(NATIVE_MINTER_GAS_COST),
                 r.balance, <<"balance_incr">>, "mint")

\* Mutant: the balance check is `<=`, rejecting a burn of the whole balance.
execute_burn_OffByOne(internals, from, amount) ==
    LET account == load_account(internals, from) IN
    IF ~account.ok
    THEN Outcome(PrecompileError("NativeMinter: load account failed"),
                 internals.balance, <<"load_account">>, "burn")
    ELSE IF account.balance <= amount
    THEN Outcome(PrecompileError("NativeMinter: insufficient balance"),
                 internals.balance, <<"load_account">>, "burn")
    ELSE Outcome(PrecompileOutput_new(NATIVE_MINTER_GAS_COST),
                 set_balance(internals, from, account.balance - amount).balance,
                 <<"load_account", "set_balance">>, "burn")

\* Mutant: the balance is written before it is checked.
execute_burn_WritesFirst(internals, from, amount) ==
    LET account == load_account(internals, from) IN
    IF ~account.ok
    THEN Outcome(PrecompileError("NativeMinter: load account failed"),
                 internals.balance, <<"load_account">>, "burn")
    ELSE LET cut == IF account.balance < amount THEN 0
                    ELSE account.balance - amount
             s == set_balance(internals, from, cut) IN
         IF account.balance < amount
         THEN Outcome(PrecompileError("NativeMinter: insufficient balance"),
                      s.balance, <<"load_account", "set_balance">>, "burn")
         ELSE Outcome(PrecompileOutput_new(NATIVE_MINTER_GAS_COST),
                      s.balance, <<"load_account", "set_balance">>, "burn")

\* Mutant: the burn writes the amount, not the difference, as new balance.
execute_burn_WritesAmount(internals, from, amount) ==
    LET account == load_account(internals, from) IN
    IF ~account.ok
    THEN Outcome(PrecompileError("NativeMinter: load account failed"),
                 internals.balance, <<"load_account">>, "burn")
    ELSE IF account.balance < amount
    THEN Outcome(PrecompileError("NativeMinter: insufficient balance"),
                 internals.balance, <<"load_account">>, "burn")
    ELSE Outcome(PrecompileOutput_new(NATIVE_MINTER_GAS_COST),
                 set_balance(internals, from, amount).balance,
                 <<"load_account", "set_balance">>, "burn")

\* Mutant: the burn reports success and never writes the new balance.
execute_burn_NoWrite(internals, from, amount) ==
    LET acc == load_account(internals, from) IN
    IF ~acc.ok
    THEN Outcome(PrecompileError("Failed to load account"),
                 internals.balance, <<"load_account">>, "burn")
    ELSE IF acc.balance < amount
    THEN Outcome(PrecompileError("NativeMinter: insufficient balance"),
                 internals.balance, <<"load_account">>, "burn")
    ELSE Outcome(PrecompileOutput_new(NATIVE_MINTER_GAS_COST),
                 internals.balance, <<"load_account">>, "burn")

execute_burn(internals, from, amount) ==
    LET account == load_account(internals, from) IN
    IF ~account.ok
    THEN Outcome(PrecompileError("NativeMinter: load account failed"),
                 internals.balance, <<"load_account">>, "burn")
    ELSE LET current_balance == account.balance IN
         IF current_balance < amount
         THEN Outcome(PrecompileError("NativeMinter: insufficient balance"),
                      internals.balance, <<"load_account">>, "burn")
         ELSE LET new_balance == current_balance - amount
                  s == set_balance(internals, from, new_balance) IN
              IF ~s.ok
              THEN Outcome(PrecompileError("NativeMinter: burn failed"),
                           internals.balance,
                           <<"load_account", "set_balance">>, "burn")
              ELSE Outcome(PrecompileOutput_new(NATIVE_MINTER_GAS_COST),
                           s.balance,
                           <<"load_account", "set_balance">>, "burn")

\* Mutant: the selector is matched on its first three bytes only.
dispatch_PrefixMatch(input, internals) ==
    LET selector == SubSeq(input.data.sel, 1, 3)
        decoded == abi_decode(input.data) IN
    IF selector = SubSeq(mintCall_SELECTOR, 1, 3)
    THEN IF ~decoded.ok
         THEN Outcome(PrecompileError("NativeMinter: invalid mint args"),
                      internals.balance, <<>>, "mint")
         ELSE execute_mint(internals, decoded.address, decoded.amount)
    ELSE IF selector = SubSeq(burnCall_SELECTOR, 1, 3)
    THEN IF ~decoded.ok
         THEN Outcome(PrecompileError("NativeMinter: invalid burn args"),
                      internals.balance, <<>>, "burn")
         ELSE execute_burn(internals, decoded.address, decoded.amount)
    ELSE Outcome(PrecompileError("NativeMinter: unknown function"),
                 internals.balance, <<>>, "unknown")

\* match selector { mint => ..., burn => ..., _ => unknown function }
dispatch(input, internals) ==
    LET selector == SubSeq(input.data.sel, 1, 4)
        decoded == abi_decode(input.data) IN
    IF selector = mintCall_SELECTOR
    THEN IF ~decoded.ok
         THEN Outcome(PrecompileError("NativeMinter: invalid mint args"),
                      internals.balance, <<>>, "mint")
         ELSE execute_mint(internals, decoded.address, decoded.amount)
    ELSE IF selector = burnCall_SELECTOR
    THEN IF ~decoded.ok
         THEN Outcome(PrecompileError("NativeMinter: invalid burn args"),
                      internals.balance, <<>>, "burn")
         ELSE execute_burn(internals, decoded.address, decoded.amount)
    ELSE Outcome(PrecompileError("NativeMinter: unknown function"),
                 internals.balance, <<>>, "unknown")

\* Mutant: the calldata length is checked before the caller.
call_LengthBeforeCaller(self, input, internals) ==
    IF input.gas < NATIVE_MINTER_GAS_COST
    THEN Outcome(PrecompileError("OutOfGas"), internals.balance, <<>>, "none")
    ELSE IF ~is_direct_call(input)
    THEN Outcome(PrecompileError("NativeMinter: DELEGATECALL not allowed"),
                 internals.balance, <<>>, "none")
    ELSE IF is_static_call(input)
    THEN Outcome(PrecompileError("NativeMinter: STATICCALL not allowed"),
                 internals.balance, <<>>, "none")
    ELSE IF data_len(input.data) < 4
    THEN Outcome(PrecompileError("NativeMinter: invalid calldata length"),
                 internals.balance, <<>>, "none")
    ELSE IF input.caller # self
    THEN Outcome(PrecompileError("NativeMinter: unauthorized caller"),
                 internals.balance, <<>>, "none")
    ELSE dispatch(input, internals)

\* NativeMinterPrecompile::call(&self, input); self is the authorized bridge.
call(self, input, internals) ==
    IF input.gas < NATIVE_MINTER_GAS_COST
    THEN Outcome(PrecompileError("OutOfGas"), internals.balance, <<>>, "none")
    ELSE IF ~is_direct_call(input)
    THEN Outcome(PrecompileError("NativeMinter: DELEGATECALL not allowed"),
                 internals.balance, <<>>, "none")
    ELSE IF is_static_call(input)
    THEN Outcome(PrecompileError("NativeMinter: STATICCALL not allowed"),
                 internals.balance, <<>>, "none")
    ELSE IF input.caller # self
    THEN Outcome(PrecompileError("NativeMinter: unauthorized caller"),
                 internals.balance, <<>>, "none")
    ELSE IF data_len(input.data) < 4
    THEN Outcome(PrecompileError("NativeMinter: invalid calldata length"),
                 internals.balance, <<>>, "none")
    ELSE dispatch(input, internals)

\* -------------------------------------------------------------- RkbEvmFactory

\* Precompiles::cancun(): the standard precompiles 0x01..0x0a, each entry
\* with its id and the function it runs.
Precompiles_cancun ==
    LET ids == <<"ecrecover", "sha256", "ripemd160", "identity", "modexp",
                 "bn128_add", "bn128_mul", "bn128_pairing", "blake2f",
                 "kzg_point_evaluation">>
        addrs == <<"0x01", "0x02", "0x03", "0x04", "0x05",
                   "0x06", "0x07", "0x08", "0x09", "0x0a">>
    IN [a \in {addrs[i] : i \in 1..10} |->
           LET i == CHOOSE j \in 1..10 : addrs[j] = a
           IN [id |-> ids[i], fn |-> ids[i]]]

\* The hard forks an EvmEnv may name (cfg_env.spec).
SpecId == {"CANCUN", "PRAGUE"}

\* RkbEvmFactory::new(authorized_bridge): Self { authorized_bridge }
RkbEvmFactory_new(bridge) == [authorized_bridge |-> bridge]

\* impl Default: Self::new(Address::ZERO)
RkbEvmFactory_default == RkbEvmFactory_new(ADDRESS_ZERO)

\* Precompile::new(PrecompileId::custom("native_minter"), NATIVE_MINTER_ADDRESS,
\*                 native_minter_fn)
native_minter_precompile ==
    [address |-> NATIVE_MINTER_ADDRESS,
     entry |-> [id |-> "native_minter", fn |-> "native_minter_fn"]]

\* Precompiles::extend([p]): insert p at its address.
extend(precompiles, p) ==
    [a \in DOMAIN precompiles \cup {p.address} |->
        IF a = p.address THEN p.entry ELSE precompiles[a]]

(* Memory of precompile sets: pointer 0 is the static set behind            *)
(* Precompiles::cancun(); pointer k >= 1 is the k-th set given a 'static    *)
(* lifetime by Box::leak.                                                   *)
Deref(cancun, heap, ptr) == IF ptr = 0 THEN cancun ELSE heap[ptr]

\* Mutant: the shared base set is extended in place and handed out.
create_precompiles_InPlace(self, spec, cancun, heap) ==
    [cancun |-> extend(cancun, native_minter_precompile),
     heap |-> heap,
     ptr |-> 0]

\* RkbEvmFactory::create_precompiles(&self, _spec): yields the memory
\* afterwards and the pointer the PrecompilesMap is built from.
create_precompiles(self, spec, cancun, heap) ==
    LET base == cancun
        precompiles == extend(base, native_minter_precompile)
    IN [cancun |-> cancun,
        heap |-> Append(heap, precompiles),
        ptr |-> Len(heap) + 1]

\* fn native_minter_fn(input: &[u8], gas_limit: u64)
native_minter_fn(data, gas_limit) ==
    IF gas_limit < NATIVE_MINTER_GAS_COST
    THEN PrecompileError("OutOfGas")
    ELSE PrecompileOutput_new(NATIVE_MINTER_GAS_COST)

\* EvmFactory::create_evm(&self, db, input): EthEvm::new(evm, false)
create_evm(self, env_spec, cancun, heap) ==
    LET p == create_precompiles(self, env_spec, cancun, heap)
    IN [cancun |-> p.cancun, heap |-> p.heap,
        evm |-> [factory |-> self, spec |-> env_spec,
                 precompiles |-> p.ptr, inspect |-> FALSE]]

\* EvmFactory::create_evm_with_inspector: EthEvm::new(create_evm(..)
\*   .into_inner().with_inspector(inspector), true)
create_evm_with_inspector(self, env_spec, cancun, heap) ==
    LET c == create_evm(self, env_spec, cancun, heap)
    IN [c EXCEPT !.evm.inspect = TRUE]

\* ------------------------------------------------------------------- state

VARIABLES
    authorized_bridge,  \* NativeMinterPrecompile.authorized_bridge
    balance,            \* the ledger: balance of every account
    input,              \* the PrecompileInput of the last call
    result,             \* the PrecompileResult of the last call
    before,             \* the ledger as it was before the last call
    ledger_calls,       \* the EvmInternals primitives the last call invoked
    branch,             \* the match arm the last call reached
    routed,             \* the function that ran the last call
    static_cancun,      \* the set behind Precompiles::cancun()
    leaked,             \* the precompile sets leaked by create_precompiles
    factory,            \* the RkbEvmFactory in use, or NoFactory
    evms,               \* the EVMs created so far
    called,             \* index of the EVM that ran the last call, or 0
    prev,               \* history: the call before the last (SpecRoundTrip)
    db_error,           \* the database behind EvmInternals fails its loads
    audit               \* history: the successful mints and burns (SpecLedger)

vars == <<authorized_bridge, balance, input, result, before, ledger_calls,
          branch, routed, static_cancun, leaked, factory, evms, called,
          prev, db_error, audit>>

opVars == <<authorized_bridge, balance, input, result, before, ledger_calls,
            branch, routed, called, prev, db_error, audit>>

factoryVars == <<static_cancun, leaked, factory, evms>>

NoFactory == [authorized_bridge |-> "none"]

NoInput ==
    [caller |-> ADDRESS_ZERO, target_address |-> "none",
     bytecode_address |-> "none", is_static |-> FALSE, gas |-> 0,
     data |-> [sel |-> <<>>, nwords |-> 0, pad |-> 0,
               addr |-> ADDRESS_ZERO, amount |-> 0],
     db_error |-> FALSE]

NoResult == [ok |-> FALSE, err |-> "no call", gas_used |-> 0, bytes |-> <<>>]

\* pre is the balance the earlier call found at the account its payload names.
NoPrev == [input |-> NoInput, result |-> NoResult, pre |-> 0]

\* The accounting history of a ledger nothing has been invoked on.
NoAudit(ledger) ==
    [initial |-> ledger,
     minted |-> [a \in Address |-> 0],
     burned |-> [a \in Address |-> 0],
     overflowed |-> {},
     ncalls |-> 0]

\* The history of a behaviour that keeps no accounts.
NotAudited == NoAudit([a \in Address |-> 0])

\* ------------------------------------------------------------------ inputs

Data(sel, nwords, pad, addr, amount) ==
    [sel |-> sel, nwords |-> nwords, pad |-> pad, addr |-> addr,
     amount |-> amount]

\* Calldata with a 4-byte prefix and the two argument words of
\* f(address,uint256), the address left-padded with zeros.
Encode(sel, addr, amount) == Data(sel, 2, 0, addr, amount)

\* sel with bit i (0..31, bit 0 the lowest bit of the first byte) inverted.
FlipBit(sel, i) ==
    LET k == (i \div 8) + 1
        w == 2 ^ (i % 8)
        b == sel[k]
    IN [sel EXCEPT ![k] = IF (b \div w) % 2 = 1 THEN b - w ELSE b + w]

UnknownSelector == FlipBit(mintCall_SELECTOR, 0)

Selectors ==
    {mintCall_SELECTOR, burnCall_SELECTOR, <<0, 0, 0, 0>>}
      \cup {FlipBit(mintCall_SELECTOR, i) : i \in 0..31}
      \cup {FlipBit(burnCall_SELECTOR, i) : i \in {0, 15, 31}}

\* Payloads shorter than a selector: empty, and three bytes of mint's.
ShortPayloads ==
    {Data(<<>>, 0, 0, ADDRESS_ZERO, 0),
     Data(SubSeq(mintCall_SELECTOR, 1, 3), 0, 0, ADDRESS_ZERO, 0)}

\* One payload of each shape: empty, unknown selector, undecodable,
\* well-formed mint and well-formed burn.
ShapePayloads ==
    {Data(<<>>, 0, 0, ADDRESS_ZERO, 0),
     Encode(UnknownSelector, BRIDGE_EXAMPLE, 1),
     Data(mintCall_SELECTOR, 1, 0, BRIDGE_EXAMPLE, 0),
     Encode(mintCall_SELECTOR, BRIDGE_EXAMPLE, 1),
     Encode(burnCall_SELECTOR, BRIDGE_EXAMPLE, 1)}

\* Every argument encoding after a 4-byte prefix: too short (0 or 1 word),
\* with a trailing word (3), exact (2 words) for every address and amount,
\* and exact with dirty address padding.
ArgPayloads ==
    LET sels == {mintCall_SELECTOR, burnCall_SELECTOR, UnknownSelector} IN
    {Data(s, n, 0, BRIDGE_EXAMPLE, 1) : s \in sels, n \in {0, 1, 3}}
      \cup {Data(s, 2, 0, a, v) : s \in sels, a \in Address, v \in U256}
      \cup {Data(s, 2, 1, a, 1) : s \in sels, a \in Address}

\* db_error is the state of the database the call's internals find; the
\* invocation fills it in.
CallInput(caller, target, bytecode, static, gas, data) ==
    [caller |-> caller, target_address |-> target,
     bytecode_address |-> bytecode, is_static |-> static, gas |-> gas,
     data |-> data, db_error |-> FALSE]

\* A direct, non-static call of the precompile.
DirectInput(caller, gas, data) ==
    CallInput(caller, NATIVE_MINTER_ADDRESS, NATIVE_MINTER_ADDRESS, FALSE,
              gas, data)

\* Every call context (gas, call kind, static flag, caller) with a payload
\* of each shape.  A DELEGATECALL runs the precompile's code with the
\* caller's own address as target.
ContextInputs ==
    {CallInput(c, t, NATIVE_MINTER_ADDRESS, s, g, d) :
        c \in Address, t \in {NATIVE_MINTER_ADDRESS, BRIDGE_EXAMPLE},
        s \in BOOLEAN, g \in {5999, NATIVE_MINTER_GAS_COST},
        d \in ShapePayloads}

\* Every payload in a direct, non-static call with exactly the gas cost;
\* every well-formed mint and burn also with more gas.
PayloadInputs ==
    {DirectInput(c, NATIVE_MINTER_GAS_COST, d) :
        c \in Address, d \in ArgPayloads \cup ShortPayloads}
      \cup {DirectInput(c, 10000, Encode(s, a, v)) :
               c \in Address, s \in {mintCall_SELECTOR, burnCall_SELECTOR},
               a \in Address, v \in U256}

\* Every selector with well-formed arguments, called by the example bridge.
SelectorInputs ==
    {DirectInput(BRIDGE_EXAMPLE, NATIVE_MINTER_GAS_COST,
                 Encode(s, BRIDGE_EXAMPLE, 1)) : s \in Selectors}

Inputs == ContextInputs \cup PayloadInputs \cup SelectorInputs

\* ------------------------------------------------------------------ Spec

Init ==
    /\ authorized_bridge \in Address      \* NativeMinterPrecompile::new
    /\ balance \in [Address -> U256]
    /\ input = NoInput
    /\ result = NoResult
    /\ before = balance
    /\ ledger_calls = <<>>
    /\ branch = "none"
    /\ routed = "none"
    /\ called = 0
    /\ prev = NoPrev
    /\ db_error = FALSE
    /\ audit = NotAudited
    /\ static_cancun = Precompiles_cancun
    /\ leaked = <<>>
    /\ factory = NoFactory
    /\ evms = <<>>

\* One invocation of the DynPrecompile of into_dyn_precompile,
\* |input| self.call(input), on the current ledger.
Invoke(i) ==
    LET o == call(authorized_bridge, i,
                  [balance |-> balance, db_error |-> db_error])
    IN /\ input' = [i EXCEPT !.db_error = db_error]
       /\ result' = o.result
       /\ before' = balance
       /\ balance' = o.balance
       /\ ledger_calls' = o.ledger_calls
       /\ branch' = o.branch
       /\ routed' = "NativeMinterPrecompile::call"
       /\ UNCHANGED <<authorized_bridge, called, db_error>>
       /\ UNCHANGED factoryVars

Call ==
    \E i \in Inputs :
        /\ Invoke(i)
        /\ UNCHANGED <<prev, audit>>

\* The database starts to fail its account loads (an I/O error).
DbFault ==
    /\ ~db_error
    /\ db_error' = TRUE
    /\ UNCHANGED <<authorized_bridge, balance, input, result, before,
                   ledger_calls, branch, routed, called, prev, audit>>
    /\ UNCHANGED factoryVars

\* The database answers again.
DbRecover ==
    /\ db_error
    /\ db_error' = FALSE
    /\ UNCHANGED <<authorized_bridge, balance, input, result, before,
                   ledger_calls, branch, routed, called, prev, audit>>
    /\ UNCHANGED factoryVars

Next ==
    \/ Call
    \/ DbFault
    \/ DbRecover

Spec == Init /\ [][Next]_vars

\* ----------------------------------------------------------- SpecRoundTrip

\* Mints and burns of every account and amount by the example bridge, a
\* mint and a burn by the other caller, and one call of another kind.
RoundTripInputs ==
    {DirectInput(BRIDGE_EXAMPLE, NATIVE_MINTER_GAS_COST, Encode(s, a, v)) :
        s \in {mintCall_SELECTOR, burnCall_SELECTOR},
        a \in Address, v \in U256}
      \cup {DirectInput(ADDRESS_ZERO, NATIVE_MINTER_GAS_COST,
                        Encode(s, BRIDGE_EXAMPLE, 1)) :
               s \in {mintCall_SELECTOR, burnCall_SELECTOR}}
      \cup {DirectInput(BRIDGE_EXAMPLE, NATIVE_MINTER_GAS_COST,
                        Encode(UnknownSelector, BRIDGE_EXAMPLE, 1))}

\* The same invocation, remembering the call it follows.
TrackedCall ==
    \E i \in RoundTripInputs :
        /\ Invoke(i)
        /\ prev' = [input |-> input, result |-> result,
                    pre |-> before[input.data.addr]]
        /\ UNCHANGED audit

NextRoundTrip ==
    \/ TrackedCall
    \/ DbFault
    \/ DbRecover

SpecRoundTrip == Init /\ [][NextRoundTrip]_vars

\* -------------------------------------------------------------- SpecLedger

\* The calls of RoundTripInputs and the rejections of the call context:
\* too little gas, a DELEGATECALL, a STATICCALL and a short payload.
LedgerInputs ==
    RoundTripInputs
      \cup {DirectInput(BRIDGE_EXAMPLE, 5999,
                        Encode(mintCall_SELECTOR, BRIDGE_EXAMPLE, 1)),
             CallInput(BRIDGE_EXAMPLE, BRIDGE_EXAMPLE, NATIVE_MINTER_ADDRESS,
                       FALSE, NATIVE_MINTER_GAS_COST,
                       Encode(mintCall_SELECTOR, BRIDGE_EXAMPLE, 1)),
             CallInput(BRIDGE_EXAMPLE, NATIVE_MINTER_ADDRESS,
                       NATIVE_MINTER_ADDRESS, TRUE, NATIVE_MINTER_GAS_COST,
                       Encode(burnCall_SELECTOR, BRIDGE_EXAMPLE, 1)),
             DirectInput(BRIDGE_EXAMPLE, NATIVE_MINTER_GAS_COST,
                         Data(mintCall_SELECTOR, 1, 0, BRIDGE_EXAMPLE, 1))}

\* Any precompile and any ledger, its accounting history started.
InitLedger ==
    /\ authorized_bridge \in Address      \* NativeMinterPrecompile::new
    /\ balance \in [Address -> U256]
    /\ input = NoInput
    /\ result = NoResult
    /\ before = balance
    /\ ledger_calls = <<>>
    /\ branch = "none"
    /\ routed = "none"
    /\ called = 0
    /\ prev = NoPrev
    /\ db_error = FALSE
    /\ audit = NoAudit(balance)
    /\ static_cancun = Precompiles_cancun
    /\ leaked = <<>>
    /\ factory = NoFactory
    /\ evms = <<>>

\* The accounting history after one more invocation i that found the ledger
\* pre and returned res: a successful mint adds its amount to the mints of
\* its recipient, a successful burn to the burns of its account; a mint whose
\* sum is past the largest U256 marks the recipient.
Audited(au, i, res, pre) ==
    LET args == abi_decode(i.data)
        mint == res.ok /\ i.data.sel = mintCall_SELECTOR
        burn == res.ok /\ i.data.sel = burnCall_SELECTOR
    IN [initial |-> au.initial,
        minted |-> IF mint
                   THEN [au.minted EXCEPT ![args.address] = @ + args.amount]
                   ELSE au.minted,
        burned |-> IF burn
                   THEN [au.burned EXCEPT ![args.address] = @ + args.amount]
                   ELSE au.burned,
        overflowed |-> IF mint /\ pre[args.address] + args.amount > U256Max
                       THEN au.overflowed \cup {args.address}
                       ELSE au.overflowed,
        ncalls |-> au.ncalls + 1]

\* The same invocation, adding its mint or burn to the accounting history.
AuditedCall ==
    \E i \in LedgerInputs :
        /\ audit.ncalls < MaxAudited
        /\ Invoke(i)
        /\ audit' = Audited(audit, input', result', balance)
        /\ UNCHANGED prev

NextLedger ==
    \/ AuditedCall
    \/ DbFault
    \/ DbRecover

SpecLedger == InitLedger /\ [][NextLedger]_vars

\* ------------------------------------------------------------- SpecFactory

\* The EVM's dispatch of a call whose code address is in its precompile
\* set.  PrecompilesMap::from_static runs a plain Precompile as
\* fn(input.data, input.gas); a standard precompile's own result is not
\* part of this repository and is left as NoResult.
evm_call(precompiles, i, ledger) ==
    IF i.bytecode_address \notin DOMAIN precompiles
    THEN [out |-> Outcome(NoResult, ledger, <<>>, "none"), routed |-> "none"]
    ELSE LET fn == precompiles[i.bytecode_address].fn IN
         IF fn = "native_minter_fn"
         THEN [out |-> Outcome(native_minter_fn(i.data, i.gas), ledger,
                               <<>>, "none"),
               routed |-> fn]
         ELSE [out |-> Outcome(NoResult, ledger, <<>>, "none"), routed |-> fn]

\* Calls made through a created EVM: mint, burn and an empty payload from
\* every caller with too little and with enough gas, a DELEGATECALL, a
\* STATICCALL, a standard precompile and an address that is no precompile.
EvmInputs ==
    {DirectInput(c, g, d) :
        c \in Address, g \in {5999, NATIVE_MINTER_GAS_COST},
        d \in {Encode(mintCall_SELECTOR, BRIDGE_EXAMPLE, 1),
               Encode(burnCall_SELECTOR, BRIDGE_EXAMPLE, 1),
               Data(<<>>, 0, 0, ADDRESS_ZERO, 0)}}
      \cup {CallInput(BRIDGE_EXAMPLE, t[1], t[2], t[3], NATIVE_MINTER_GAS_COST,
                      Encode(mintCall_SELECTOR, BRIDGE_EXAMPLE, 1)) :
               t \in {<<BRIDGE_EXAMPLE, NATIVE_MINTER_ADDRESS, FALSE>>,
                      <<NATIVE_MINTER_ADDRESS, NATIVE_MINTER_ADDRESS, TRUE>>,
                      <<"0x01", "0x01", FALSE>>,
                      <<"0x421", "0x421", FALSE>>}}

InitFactory ==
    /\ authorized_bridge = "none"
    /\ balance = [a \in Address |-> 1]
    /\ input = NoInput
    /\ result = NoResult
    /\ before = balance
    /\ ledger_calls = <<>>
    /\ branch = "none"
    /\ routed = "none"
    /\ called = 0
    /\ prev = NoPrev
    /\ db_error = FALSE
    /\ audit = NotAudited
    /\ static_cancun = Precompiles_cancun
    /\ leaked = <<>>
    /\ factory = NoFactory
    /\ evms = <<>>

\* RkbEvmFactory::new(authorized_bridge)
New ==
    \E bridge \in Address :
        /\ factory' = RkbEvmFactory_new(bridge)
        /\ UNCHANGED <<static_cancun, leaked, evms>>
        /\ UNCHANGED opVars

\* RkbEvmFactory::default()
Default ==
    /\ factory' = RkbEvmFactory_default
    /\ UNCHANGED <<static_cancun, leaked, evms>>
    /\ UNCHANGED opVars

CreateEvm ==
    \E spec \in SpecId :
        /\ factory # NoFactory
        /\ Len(evms) < MaxEvms
        /\ LET c == create_evm(factory, spec, static_cancun, leaked)
           IN /\ static_cancun' = c.cancun
              /\ leaked' = c.heap
              /\ evms' = Append(evms, c.evm)
        /\ UNCHANGED factory
        /\ UNCHANGED opVars

CreateEvmWithInspector ==
    \E spec \in SpecId :
        /\ factory # NoFactory
        /\ Len(evms) < MaxEvms
        /\ LET c == create_evm_with_inspector(factory, spec, static_cancun,
                                              leaked)
           IN /\ static_cancun' = c.cancun
              /\ leaked' = c.heap
              /\ evms' = Append(evms, c.evm)
        /\ UNCHANGED factory
        /\ UNCHANGED opVars

\* A call executed by a created EVM.
EvmCall ==
    \E e \in 1..Len(evms), i \in EvmInputs :
        LET precompiles == Deref(static_cancun, leaked, evms[e].precompiles)
            r == evm_call(precompiles, i, balance)
        IN /\ input' = i
           /\ result' = r.out.result
           /\ before' = balance
           /\ balance' = r.out.balance
           /\ ledger_calls' = r.out.ledger_calls
           /\ branch' = r.out.branch
           /\ routed' = r.routed
           /\ called' = e
           /\ UNCHANGED <<authorized_bridge, prev, db_error, audit>>
           /\ UNCHANGED factoryVars

NextFactory ==
    \/ New
    \/ Default
    \/ CreateEvm
    \/ CreateEvmWithInspector
    \/ EvmCall

SpecFactory == InitFactory /\ [][NextFactory]_vars

\* ------------------------------------------------------------------ claims

\* The rejection reasons of the specification, by the error the code returns.
Kind(res) ==
    CASE res.ok -> "Success"
      [] res.err = "OutOfGas" -> "OutOfGas"
      [] res.err = "NativeMinter: DELEGATECALL not allowed" ->
            "DelegationNotPermitted"
      [] res.err = "NativeMinter: STATICCALL not allowed" ->
            "MutationInReadOnlyContext"
      [] res.err = "NativeMinter: unauthorized caller" -> "Unauthorized"
      [] res.err \in {"NativeMinter: invalid calldata length",
                      "NativeMinter: invalid mint args",
                      "NativeMinter: invalid burn args"} -> "MalformedCall"
      [] res.err = "NativeMinter: unknown function" -> "UnknownOperation"
      [] res.err = "NativeMinter: insufficient balance" ->
            "InsufficientBalance"
      [] res.err \in {"NativeMinter: mint failed",
                      "NativeMinter: load account failed",
                      "NativeMinter: burn failed"} -> "LedgerError"
      [] OTHER -> "NoCall"

\* The last step was an invocation of NativeMinterPrecompile::call.
OperationCalled == routed = "NativeMinterPrecompile::call"

SufficientGas == input.gas >= NATIVE_MINTER_GAS_COST

Direct == input.target_address = input.bytecode_address

\* Gas, call kind, read-only flag and caller all pass.
PassesContext ==
    /\ SufficientGas
    /\ Direct
    /\ ~input.is_static
    /\ input.caller = authorized_bridge

\* The payload is the canonical encoding of f(address,uint256) for prefix sel.
WellFormed(sel) ==
    /\ input.data.sel = sel
    /\ input.data.nwords = 2
    /\ input.data.pad = 0

\* The reason of the first check that fails, in the order of C1, or "none".
FirstFailedCheck ==
    IF ~SufficientGas THEN "OutOfGas"
    ELSE IF ~Direct THEN "DelegationNotPermitted"
    ELSE IF input.is_static THEN "MutationInReadOnlyContext"
    ELSE IF input.caller # authorized_bridge THEN "Unauthorized"
    ELSE IF Len(input.data.sel) < 4 THEN "MalformedCall"
    ELSE IF input.data.sel \notin {<<64, 193, 15, 25>>, <<157, 194, 159, 172>>}
         THEN "UnknownOperation"
    ELSE IF input.data.nwords < 2 THEN "MalformedCall"
    ELSE "none"

\* C1: every call that fails one of the seven checks
\* (gas, direct, static, caller, length, selector, decode) is rejected with
\* the reason of the first check that fails in that order, and a call that
\* fails none of them is not rejected with any of those reasons; so an
\* unauthorized direct non-static call with enough gas is Unauthorized for
\* every payload, and a delegated or static call with enough gas is rejected
\* with its own reason whatever the caller and payload.
C1_CheckOrder ==
    OperationCalled =>
        /\ FirstFailedCheck # "none" => Kind(result) = FirstFailedCheck
        /\ FirstFailedCheck = "none" =>
              Kind(result) \in {"Success", "InsufficientBalance", "LedgerError"}
        /\ (SufficientGas /\ Direct /\ ~input.is_static
              /\ input.caller # authorized_bridge) =>
              Kind(result) = "Unauthorized"
        /\ (SufficientGas /\ ~Direct) =>
              Kind(result) = "DelegationNotPermitted"
        /\ (SufficientGas /\ Direct /\ input.is_static) =>
              Kind(result) = "MutationInReadOnlyContext"

\* An unauthorized caller's well-formed mint was rejected as Unauthorized.
C1_Witness ==
    /\ OperationCalled
    /\ SufficientGas /\ Direct /\ ~input.is_static
    /\ input.caller # authorized_bridge
    /\ WellFormed(mintCall_SELECTOR)
    /\ Kind(result) = "Unauthorized"

\* C3: a call rejected as OutOfGas, DelegationNotPermitted,
\* MutationInReadOnlyContext, Unauthorized, MalformedCall, UnknownOperation
\* or InsufficientBalance never invoked balance_incr or set_balance, and
\* every balance is what it was before the call.
C3_NoMutationOnRejection ==
    (OperationCalled
       /\ Kind(result) \in {"OutOfGas", "DelegationNotPermitted",
                            "MutationInReadOnlyContext", "Unauthorized",
                            "MalformedCall", "UnknownOperation",
                            "InsufficientBalance"}) =>
        /\ \A k \in 1..Len(ledger_calls) :
              ledger_calls[k] \notin {"balance_incr", "set_balance"}
        /\ balance = before

\* A burn of more than the balance was rejected after reading the ledger.
C3_Witness ==
    /\ OperationCalled
    /\ Kind(result) = "InsufficientBalance"
    /\ ledger_calls = <<"load_account">>
    /\ input.data.amount > before[input.data.addr]
    /\ balance = before

\* The call is a burn(from, amount) that passed the context, authorization
\* and decoding checks and read currentBalance(from) from the ledger.
BurnExecuted ==
    /\ OperationCalled
    /\ PassesContext
    /\ input.data.sel = <<157, 194, 159, 172>>
    /\ input.data.nwords >= 2
    /\ ~input.db_error

\* C4: a burn(from, amount) that passes all checks with amount greater
\* than the balance read for `from` is rejected as InsufficientBalance and
\* leaves that balance unchanged; with amount equal to the balance it
\* succeeds and leaves the balance at 0.
C4_BurnNonNegative ==
    BurnExecuted =>
        LET from == input.data.addr
            amount == input.data.amount
        IN /\ amount > before[from] =>
                 /\ Kind(result) = "InsufficientBalance"
                 /\ balance[from] = before[from]
           /\ amount = before[from] =>
                 /\ result.ok
                 /\ balance[from] = 0

\* A burn of the whole, nonzero balance succeeded.
C4_Witness ==
    /\ BurnExecuted
    /\ input.data.amount = before[input.data.addr]
    /\ input.data.amount > 0
    /\ result.ok
    /\ balance[input.data.addr] = 0

\* i is a direct, non-static call by the authorized bridge with enough gas
\* whose payload is the canonical encoding of sel(address,uint256).
Eligible(i, sel) ==
    /\ i.gas >= NATIVE_MINTER_GAS_COST
    /\ i.target_address = i.bytecode_address
    /\ ~i.is_static
    /\ i.caller = authorized_bridge
    /\ i.data.sel = sel
    /\ i.data.nwords = 2
    /\ i.data.pad = 0

\* The last two calls were mint(X, amount) then burn(X, amount), both
\* eligible.
MintThenBurn ==
    /\ OperationCalled
    /\ Eligible(prev.input, <<64, 193, 15, 25>>)
    /\ Eligible(input, <<157, 194, 159, 172>>)
    /\ input.data.addr = prev.input.data.addr
    /\ input.data.amount = prev.input.data.amount

MintCalled == OperationCalled /\ Eligible(input, <<64, 193, 15, 25>>)

C9_SelectorExact ==
    (OperationCalled /\ PassesContext /\ Len(input.data.sel) = 4) =>
        /\ branch = "mint" <=> input.data.sel = <<64, 193, 15, 25>>
        /\ branch = "burn" <=> input.data.sel = <<157, 194, 159, 172>>
        /\ input.data.sel \notin {<<64, 193, 15, 25>>, <<157, 194, 159, 172>>} =>
              /\ Kind(result) = "UnknownOperation"
              /\ branch = "unknown"
              /\ ledger_calls = <<>>
              /\ balance = before
        /\ \A b \in 0..31 :
              input.data.sel = FlipBit(<<64, 193, 15, 25>>, b) =>
                 Kind(result) = "UnknownOperation"

\* The mint selector with its last bit flipped (0x40c10f99) was rejected.
C9_Witness ==
    /\ OperationCalled
    /\ PassesContext
    /\ input.data.sel = <<64, 193, 15, 153>>
    /\ input.data.nwords = 2
    /\ Kind(result) = "UnknownOperation"

\* C8 as claimed: a burn succeeds only when `from` is the caller or
\* has approved the burn (the code keeps no approvals, so none has), and no
\* call decreases the balance of an account other than its caller.
C8_BurnConsent ==
    OperationCalled =>
        /\ (branch = "burn" /\ result.ok) => input.data.addr = input.caller
        /\ \A a \in Address : balance[a] < before[a] => a = input.caller

\* The EVM that ran the last call, and the bridge its factory was built with.
CalledEvm == evms[called]

MinterCalled == called # 0 /\ input.bytecode_address = "0x420"

\* C2 as claimed: in an EVM created by the factory, a call that targets
\* 0x420 from a caller other than the factory's authorized bridge never
\* succeeds.
C2_OnlyBridgeCalls ==
    (MinterCalled /\ input.caller # CalledEvm.factory.authorized_bridge) =>
        ~result.ok

\* C7 as claimed: a call routed to 0x420 by a created EVM gives the result
\* and the ledger change of NativeMinterPrecompile::call configured with the
\* factory's authorized bridge.
C7_RegisteredIsMinter ==
    MinterCalled =>
        LET o == call(CalledEvm.factory.authorized_bridge, input,
                      [balance |-> before, db_error |-> input.db_error])
        IN /\ result = o.result
           /\ balance = o.balance

\* The precompile set an EVM runs with.
PrecompilesOf(e) == Deref(static_cancun, leaked, evms[e].precompiles)

\* C10: whatever has been created, the shared base set is what it was
\* (the ten standard entries, none at 0x420); every produced set holds each
\* base entry unchanged plus exactly one more entry, at 0x420; two sets built
\* by the same factory are equal, and no two EVMs share a set with each
\* other or with the base.
C10_CopyThenExtend ==
    /\ static_cancun = Precompiles_cancun
    /\ "0x420" \notin DOMAIN static_cancun
    /\ Cardinality(DOMAIN static_cancun) = 10
    /\ \A e \in 1..Len(evms) :
          /\ DOMAIN PrecompilesOf(e) = DOMAIN Precompiles_cancun \cup {"0x420"}
          /\ \A a \in DOMAIN Precompiles_cancun :
                PrecompilesOf(e)[a] = Precompiles_cancun[a]
          /\ PrecompilesOf(e)["0x420"].id = "native_minter"
          /\ evms[e].precompiles # 0
    /\ \A e1, e2 \in 1..Len(evms) :
          /\ evms[e1].factory = evms[e2].factory =>
                PrecompilesOf(e1) = PrecompilesOf(e2)
          /\ e1 # e2 => evms[e1].precompiles # evms[e2].precompiles

\* Two EVMs were created by one factory.
C10_Witness ==
    /\ Len(evms) >= 2
    /\ evms[1].factory = evms[2].factory
    /\ evms[1].precompiles # evms[2].precompiles

\* The standard precompile set of a hard fork, as the EVM environment's
\* cfg_env.spec names it: Cancun has 0x01..0x0a, Prague adds the seven
\* BLS12-381 operations at 0x0b..0x11.
Precompiles_of_spec(spec) ==
    LET ids == <<"bls12_g1_add", "bls12_g1_msm", "bls12_g2_add",
                 "bls12_g2_msm", "bls12_pairing", "bls12_map_fp_to_g1",
                 "bls12_map_fp2_to_g2">>
        addrs == <<"0x0b", "0x0c", "0x0d", "0x0e", "0x0f", "0x10", "0x11">>
        bls == {addrs[i] : i \in 1..7}
    IN IF spec = "CANCUN"
       THEN Precompiles_cancun
       ELSE [a \in DOMAIN Precompiles_cancun \cup bls |->
                IF a \in bls
                THEN LET i == CHOOSE j \in 1..7 : addrs[j] = a
                     IN [id |-> ids[i], fn |-> ids[i]]
                ELSE Precompiles_cancun[a]]

\* C11: the precompile set of every created EVM is the standard set of the
\* spec ID its environment named, plus the NativeMinter entry at 0x420.
C11_SetOfGivenSpec ==
    \A e \in 1..Len(evms) :
        PrecompilesOf(e) = extend(Precompiles_of_spec(evms[e].spec),
                                  native_minter_precompile)

\* The balance the accounting history gives an account: its initial balance
\* plus the successful mints to it minus the successful burns from it, as
\* integers of any size.
Accounted(a) == audit.initial[a] + audit.minted[a] - audit.burned[a]

\* The last invocation succeeded, and the account its payload names.
Succeeded == OperationCalled /\ result.ok

TargetAccount == abi_decode(input.data).address

\* A successful invocation leaves every account but its target as it was.
OnlyTargetChanged ==
    Succeeded => \A a \in Address \ {TargetAccount} : balance[a] = before[a]

\* A successful burn leaves its account with currentBalance - amount.
BurnSubtractsExactly ==
    (Succeeded /\ input.data.sel = burnCall_SELECTOR) =>
        balance[TargetAccount] =
            before[TargetAccount] - abi_decode(input.data).amount

\* C12: after any sequence of invocations every account's balance is its
\* initial balance plus the successful mints to it minus the successful
\* burns from it; a successful invocation changes its target account only,
\* and a successful burn sets it to currentBalance - amount.
C12_AccountingAlways ==
    /\ \A a \in Address : balance[a] = Accounted(a)
    /\ OnlyTargetChanged
    /\ BurnSubtractsExactly

\* C12, amended: the same, for every account no successful mint has taken
\* past the largest U256 (balance + amount <= U256::MAX at each mint to it).
C12_Accounting ==
    /\ \A a \in Address \ audit.overflowed : balance[a] = Accounted(a)
    /\ OnlyTargetChanged
    /\ BurnSubtractsExactly

\* An account was minted to and burned from without overflow, ending on a
\* balance that is neither its initial one nor zero, while the last call,
\* a success, left the other account alone.
C12_Witness ==
    /\ Succeeded
    /\ \E a \in Address \ audit.overflowed :
          /\ audit.minted[a] > 0
          /\ audit.burned[a] > 0
          /\ balance[a] = Accounted(a)
          /\ balance[a] # audit.initial[a]
          /\ balance[a] > 0

====
